---- MODULE Spec2Model ----
(***************************************************************************)
(* Model of the Salesforce bridge of chiehpy/mdw:                          *)
(*   app/salesforce_client.py  token cache, token fetch, action call with  *)
(*                             one 401 retry, response normalisation       *)
(*   app/main.py               the /process-serial handler around it       *)
(* Every handler invocation is a coroutine; coroutines interleave only at  *)
(* the awaits on the network (token POST, action POST).  One action of the *)
(* model is the code that runs between two such awaits.                    *)
(***************************************************************************)
EXTENDS Integers, Sequences, FiniteSets, TLC

\* ------------------------------------------------------------------------
\* Bounds of the model
\* ------------------------------------------------------------------------
\* number of /process-serial calls started over one run
MaxInvokes == 2
\* number of distinct access tokens the token endpoint hands out
MaxTokens == 4

\* coroutines (handler invocations) that may be in flight at the same time
Procs == {1, 2}

\* ------------------------------------------------------------------------
\* Python / JSON values: a tag and a printed value
\* ------------------------------------------------------------------------
JAbsent == [t |-> "absent", v |-> ""]
JNull == [t |-> "null", v |-> ""]
JStr(s) == [t |-> "str", v |-> s]
JTrue == [t |-> "bool", v |-> "true"]
JFalse == [t |-> "bool", v |-> "false"]
JInt(n) == [t |-> "int", v |-> ToString(n)]

\* Python truth value of a value (None, "", False and 0 are falsy)
Truthy(x) ==
    /\ x.t \notin {"absent", "null"}
    /\ ~(x.t = "str" /\ x.v = "")
    /\ x # JFalse
    /\ ~(x.t = "int" /\ x.v = "0")

\* dict.get(key, default) on a parsed JSON object
Get(body, key, default) == IF body[key] = JAbsent THEN default ELSE body[key]

\* dict.get(key): the default is None
Get1(body, key) == Get(body, key, JNull)

\* ------------------------------------------------------------------------
\* Configuration and constants of the program
\* ------------------------------------------------------------------------
API_KEY == "123"
HTTP_OK == 200
HTTP_UNAUTHORIZED == 401

\* the n-th access token issued by the token endpoint
Token(n) == JStr("tok" \o ToString(n))

\* value of the Authorization header built from a token
Bearer(tok) == "Bearer " \o tok.v

\* ------------------------------------------------------------------------
\* Inputs the environment may produce
\* ------------------------------------------------------------------------
\* x-api-key header values: the right key, a wrong one, no header
ApiKeys == {JStr("123"), JStr("wrong"), JNull}

\* the (serial, technicianName, role) triples a caller sends
Requests == {[serial |-> "S1", technicianName |-> "Ana", role |-> "Limpieza"],
             [serial |-> "S2", technicianName |-> "Luis", role |-> "Programacion"]}

NoRequest == [serial |-> "", technicianName |-> "", role |-> ""]

\* HTTP statuses of the action endpoint
ActionStatuses == {200, 201, 401, 404, 500}

\* HTTP statuses of the token endpoint
TokenStatuses == {200, 201, 400}

\* body of an action response: not JSON, JSON that is not an object, or an
\* object whose four fields of interest may each be absent
SuccessValues == {JAbsent, JTrue, JFalse, JStr("true"), JInt(1)}
MessageValues == {JAbsent, JNull, JStr("not found")}
CaseIdValues == {JAbsent, JStr("X")}
ErrorCodeValues == {JAbsent, JNull, JStr(""), JStr("SF_RECORD_NOT_FOUND")}

ObjectBodies ==
    [kind : {"object"}, success : SuccessValues, message : MessageValues,
     caseId : CaseIdValues, error_code : ErrorCodeValues]

EmptyFields(k) ==
    [kind |-> k, success |-> JAbsent, message |-> JAbsent,
     caseId |-> JAbsent, error_code |-> JAbsent]

InvalidBody == EmptyFields("invalid")
ArrayBody == EmptyFields("array")
NoBody == EmptyFields("none")

ActionBodies == ObjectBodies \cup {InvalidBody, ArrayBody}

\* the bodies of the spec's examples, one of each shape
SuccessBody ==
    [kind |-> "object", success |-> JTrue, message |-> JAbsent,
     caseId |-> JStr("X"), error_code |-> JAbsent]
NotFoundBody ==
    [kind |-> "object", success |-> JAbsent, message |-> JStr("not found"),
     caseId |-> JAbsent, error_code |-> JStr("SF_RECORD_NOT_FOUND")]
CoreBodies == {SuccessBody, NotFoundBody, InvalidBody, ArrayBody}

\* the body Salesforce sends with a 401: a JSON array of error objects
SessionExpiredBodies == {ArrayBody}

\* body of a token response: not JSON, or an object whose access_token is
\* absent, empty or a token
TokenBodyKinds == {"invalid", "missing", "empty", "token"}

NoResponse == [status |-> 0, body |-> NoBody]

\* ------------------------------------------------------------------------
\* Results
\* ------------------------------------------------------------------------
NoResult == [success |-> FALSE, message |-> JAbsent, salesforce_id |-> JAbsent,
             error_code |-> JAbsent]

Returned(r) == [kind |-> "returned", exc |-> "", value |-> r]
Raised(e) == [kind |-> "raised", exc |-> e, value |-> NoResult]
Pending == [kind |-> "none", exc |-> "", value |-> NoResult]

\* ------------------------------------------------------------------------
\* salesforce_client.py: token fetch
\* ------------------------------------------------------------------------
\* parsed token body: the access_token field of a token response
AccessToken(kind, n) ==
    CASE kind = "token" -> Token(n)
      [] kind = "empty" -> JStr("")
      [] OTHER -> JAbsent

\* the exception _get_salesforce_token raises once the token endpoint has
\* answered (status, body), or "" when it stores and returns the token
\* variant: lines 43-44 left out, whatever .get("access_token") gave is stored
TokenFetchError_NoTokenCheck(status, kind, n) ==
    IF status # HTTP_OK THEN "RuntimeError"
    ELSE IF kind = "invalid" THEN "JSONDecodeError"
    ELSE ""

\* variant: every 2xx status passes line 38
TokenFetchError_2xx(status, kind, n) ==
    IF status \notin 200..299 THEN "RuntimeError"
    ELSE IF kind = "invalid" THEN "JSONDecodeError"
    ELSE IF ~Truthy(AccessToken(kind, n)) THEN "RuntimeError"
    ELSE ""

TokenFetchError(status, kind, n) ==
    IF status # HTTP_OK THEN "RuntimeError"
    ELSE IF kind = "invalid" THEN "JSONDecodeError"
    ELSE IF ~Truthy(AccessToken(kind, n)) THEN "RuntimeError"
    ELSE ""

\* transport failures of an httpx POST (timeout=10)
TransportErrors == {"httpx.TimeoutException", "httpx.ConnectError"}

\* line 58: `if not _SF_ACCESS_TOKEN` decides to fetch before the first call
\* variant: a token is fetched for every call
NeedsToken_Always(cache) == TRUE

NeedsToken(cache) == ~Truthy(cache)

\* lines 61-62 and 72: the Authorization header is (re)built from the cache;
\* old is the header the coroutine held before
\* variant: the header is built once and not rebuilt after the re-fetch
AuthHeader_Stale(old, cache) == IF old # "" THEN old ELSE Bearer(cache)

AuthHeader(old, cache) == Bearer(cache)

\* ------------------------------------------------------------------------
\* salesforce_client.py: the 401 retry
\* ------------------------------------------------------------------------
\* the response to the n-th action request of an invoke makes it fetch a new
\* token and resend: an `if` after the first request, not a loop
\* variant: a loop that retries on every 401
ShouldRetry_Loop(n, status) == status = HTTP_UNAUTHORIZED

ShouldRetry(n, status) == n = 1 /\ status = HTTP_UNAUTHORIZED

\* ------------------------------------------------------------------------
\* salesforce_client.py: update_serial_in_salesforce, normalisation
\* ------------------------------------------------------------------------
Payload(rq) ==
    [serialNumber |-> rq.serial, role |-> rq.role,
     technicianName |-> rq.technicianName]

NoPayload == Payload(NoRequest)

InvalidJsonMessage(status) ==
    JStr("Salesforce devolvio una respuesta no valida (HTTP "
         \o ToString(status) \o ")")

InvalidJsonResult(status) ==
    [success |-> FALSE, message |-> InvalidJsonMessage(status),
     salesforce_id |-> JNull, error_code |-> JStr("SF_INVALID_JSON")]

\* variant: any truthy success field counts
IsSuccess_Truthy(status, body) ==
    status = HTTP_OK /\ Truthy(Get1(body, "success"))

IsSuccess(status, body) ==
    status = HTTP_OK /\ Get1(body, "success") = JTrue

DefaultSuccessMessage == JStr("Accion realizada correctamente.")

SuccessResult(body) ==
    [success |-> TRUE, message |-> Get(body, "message", DefaultSuccessMessage),
     salesforce_id |-> Get1(body, "caseId"), error_code |-> JNull]

DefaultErrorMessage(status) ==
    JStr("Error en Salesforce (HTTP " \o ToString(status) \o ")")

\* variant: one fixed code for every status
SynthesizedCode_Fixed(status) == JStr("SF_ERROR")

SynthesizedCode(status) == JStr("SF_" \o ToString(status))

\* variant: the body's error_code is passed on without the `or` fallback
ErrorCode_NoFallback(status, body) == Get1(body, "error_code")

ErrorCode(status, body) ==
    IF Truthy(Get1(body, "error_code")) THEN Get1(body, "error_code")
    ELSE SynthesizedCode(status)

FailureResult(status, body) ==
    [success |-> FALSE,
     message |-> Get(body, "message", DefaultErrorMessage(status)),
     salesforce_id |-> Get1(body, "caseId"),
     error_code |-> ErrorCode(status, body)]

\* variant: response.json() is called without the try/except
Normalize_Unguarded(status, body) ==
    IF body.kind = "invalid" THEN Raised("JSONDecodeError")
    ELSE IF body.kind # "object" THEN Raised("AttributeError")
    ELSE IF IsSuccess(status, body) THEN Returned(SuccessResult(body))
    ELSE Returned(FailureResult(status, body))

\* what update_serial_in_salesforce does with the final response
Normalize(status, body) ==
    IF body.kind = "invalid" THEN Returned(InvalidJsonResult(status))
    ELSE IF body.kind # "object" THEN Raised("AttributeError")
    ELSE IF IsSuccess(status, body) THEN Returned(SuccessResult(body))
    ELSE Returned(FailureResult(status, body))

\* ------------------------------------------------------------------------
\* main.py: process_serial
\* ------------------------------------------------------------------------
NoHttp == [status |-> 0, ok |-> FALSE, message |-> JAbsent,
           salesforce_id |-> JAbsent, error_code |-> JAbsent]

\* HTTPException(status_code=401) of the API key gate
Unauthorized ==
    [status |-> HTTP_UNAUTHORIZED, ok |-> FALSE,
     message |-> JStr("API key invalida"),
     salesforce_id |-> JAbsent, error_code |-> JAbsent]

\* an exception that leaves the handler: the framework answers 500
ServerError ==
    [status |-> 500, ok |-> FALSE, message |-> JAbsent,
     salesforce_id |-> JAbsent, error_code |-> JAbsent]

\* ProcessSerialResponse(...) validates its fields: message must be a str
ProcessSerialResponse(ok, message, salesforce_id, error_code) ==
    IF message.t # "str" THEN ServerError
    ELSE [status |-> HTTP_OK, ok |-> ok, message |-> message,
          salesforce_id |-> salesforce_id, error_code |-> error_code]

\* the handler's answer to an outcome of update_serial_in_salesforce
HandlerResponse(o) ==
    IF o.kind = "raised"
    THEN ProcessSerialResponse(FALSE,
             JStr("Error interno llamando a Salesforce"), JNull,
             JStr("SF_INTERNAL_ERROR"))
    ELSE IF o.value.success
    THEN ProcessSerialResponse(TRUE, o.value.message,
             o.value.salesforce_id, JNull)
    ELSE ProcessSerialResponse(FALSE, o.value.message, JNull,
             o.value.error_code)

\* ------------------------------------------------------------------------
\* State
\* ------------------------------------------------------------------------
VARIABLES
    _SF_ACCESS_TOKEN,   \* the module-level token cache (None or a token)
    CLIENT_ID,      \* os.getenv("SF_CLIENT_ID"), read once at import
    CLIENT_SECRET,  \* os.getenv("SF_CLIENT_SECRET"), read once at import
    issued,            \* tokens the token endpoint has handed out so far
    invokes,           \* /process-serial calls started so far
    pc,                \* per coroutine: "idle", "token", "action", "done"
    attempt,           \* per coroutine: number of the action request
    payload,           \* per coroutine: payload of update_serial_in_salesforce
    headers,           \* per coroutine: headers["Authorization"]
    resp,              \* per coroutine: last action response received
    outcome,           \* per coroutine: what update_serial_in_salesforce did
    http,              \* per coroutine: what the handler answered
    x_api_key,         \* per coroutine: the x-api-key header of the call
    log                \* per coroutine: network events of the current call

vars == <<_SF_ACCESS_TOKEN, CLIENT_ID, CLIENT_SECRET, issued, invokes,
          pc, attempt, payload, headers, resp, outcome, http, x_api_key,
          log>>

env == <<CLIENT_ID, CLIENT_SECRET>>

\* one entry of a coroutine's log
Event(e, tok, auth, pl, st, kind) ==
    [ev |-> e, tok |-> tok, auth |-> auth, pl |-> pl, st |-> st, kind |-> kind]

EnvValues == {JNull, JStr(""), JStr("configured")}

Init ==
    /\ _SF_ACCESS_TOKEN = JNull
    /\ CLIENT_ID \in EnvValues
    /\ CLIENT_SECRET \in EnvValues
    /\ issued = 0
    /\ invokes = 0
    /\ pc = [p \in Procs |-> "idle"]
    /\ attempt = [p \in Procs |-> 0]
    /\ payload = [p \in Procs |-> NoPayload]
    /\ headers = [p \in Procs |-> ""]
    /\ resp = [p \in Procs |-> NoResponse]
    /\ outcome = [p \in Procs |-> Pending]
    /\ http = [p \in Procs |-> NoHttp]
    /\ x_api_key = [p \in Procs |-> JAbsent]
    /\ log = [p \in Procs |-> << >>]

\* _get_salesforce_token, line 26
\* variant: only the client id is looked at
ConfigMissing_IdOnly == ~Truthy(CLIENT_ID)

ConfigMissing == ~Truthy(CLIENT_ID) \/ ~Truthy(CLIENT_SECRET)

\* update_serial_in_salesforce ends in outcome o: the handler answers
Finish(p, o) ==
    /\ outcome' = [outcome EXCEPT ![p] = o]
    /\ http' = [http EXCEPT ![p] = HandlerResponse(o)]
    /\ pc' = [pc EXCEPT ![p] = "done"]

\* the event that opens the log of an invoke: the cache it found
InvokeEvent(rq) ==
    Event("invoke", _SF_ACCESS_TOKEN, "", Payload(rq), 0, "")

TokenRequest == Event("token_request", JAbsent, "", NoPayload, 0, "")
\* the token response (status, kind of body) that ended a fetch; status 0
\* when the POST itself failed
TokenOkEvent(tok, st, kind) == Event("token_ok", tok, "", NoPayload, st, kind)
TokenFailEvent(st, kind) ==
    Event("token_fail", JAbsent, "", NoPayload, st, kind)
ActionRequest(auth, pl) == Event("action_request", JAbsent, auth, pl, 0, "")
ActionResponse(st, body) ==
    Event("action_response", JAbsent, "", NoPayload, st, body.kind)
ActionFailEvent == Event("action_fail", JAbsent, "", NoPayload, 0, "")

Append2(s, a, b) == Append(Append(s, a), b)

\* ------------------------------------------------------------------------
\* process_serial up to its first await
\* ------------------------------------------------------------------------
\* process_serial is entered by an idle coroutine
Enter(p) ==
    /\ pc[p] = "idle"
    /\ invokes < MaxInvokes
    /\ invokes' = invokes + 1

\* main.py 174: the x-api-key header is the configured key
\* variant: a call without the header passes
KeyOk_AcceptsMissing(key) == key = JStr(API_KEY) \/ key = JNull

KeyOk(key) == key = JStr(API_KEY)

\* main.py 174-178: the call passes the API key gate
Admitted(p) ==
    /\ Enter(p)
    /\ \E key \in ApiKeys :
         /\ KeyOk(key)
         /\ x_api_key' = [x_api_key EXCEPT ![p] = key]

\* main.py 174-176: wrong or missing x-api-key, HTTPException(401)
Rejected(p) ==
    /\ Enter(p)
    /\ \E key \in ApiKeys :
         /\ ~KeyOk(key)
         /\ x_api_key' = [x_api_key EXCEPT ![p] = key]
         /\ http' = [http EXCEPT ![p] = Unauthorized]
         /\ pc' = [pc EXCEPT ![p] = "done"]
    /\ UNCHANGED <<_SF_ACCESS_TOKEN, env, issued, attempt, payload, headers,
                   resp, outcome, log>>

\* salesforce_client.py 58-59, 26-27: nothing cached and no credentials
\* configured; the RuntimeError ends update_serial_in_salesforce
StartConfigError(p) ==
    /\ Admitted(p)
    /\ NeedsToken(_SF_ACCESS_TOKEN)
    /\ ConfigMissing
    /\ \E rq \in Requests :
         /\ payload' = [payload EXCEPT ![p] = Payload(rq)]
         /\ log' = [log EXCEPT ![p] = <<InvokeEvent(rq)>>]
    /\ Finish(p, Raised("RuntimeError"))
    /\ UNCHANGED <<_SF_ACCESS_TOKEN, env, issued, attempt, headers, resp>>

\* salesforce_client.py 58-59, 26-36: nothing cached, the token request is
\* sent and the coroutine waits for its response
StartFetch(p) ==
    /\ Admitted(p)
    /\ NeedsToken(_SF_ACCESS_TOKEN)
    /\ ~ConfigMissing
    /\ \E rq \in Requests :
         /\ payload' = [payload EXCEPT ![p] = Payload(rq)]
         /\ log' = [log EXCEPT ![p] = <<InvokeEvent(rq), TokenRequest>>]
    /\ attempt' = [attempt EXCEPT ![p] = 1]
    /\ pc' = [pc EXCEPT ![p] = "token"]
    /\ UNCHANGED <<_SF_ACCESS_TOKEN, env, issued, headers, resp, outcome,
                   http>>

\* salesforce_client.py 58-67: a token is cached, the action request is
\* sent with it
StartCached(p) ==
    /\ Admitted(p)
    /\ ~NeedsToken(_SF_ACCESS_TOKEN)
    /\ headers' = [headers EXCEPT ![p] = AuthHeader(@, _SF_ACCESS_TOKEN)]
    /\ \E rq \in Requests :
         /\ payload' = [payload EXCEPT ![p] = Payload(rq)]
         /\ log' = [log EXCEPT ![p] =
                      <<InvokeEvent(rq),
                        ActionRequest(headers'[p], Payload(rq))>>]
    /\ attempt' = [attempt EXCEPT ![p] = 1]
    /\ pc' = [pc EXCEPT ![p] = "action"]
    /\ UNCHANGED <<_SF_ACCESS_TOKEN, env, issued, resp, outcome, http>>

\* ------------------------------------------------------------------------
\* the token response arrives
\* ------------------------------------------------------------------------
\* salesforce_client.py 38-47, then 59-67 or 71-73: the token is stored in
\* the cache, the Authorization header is built from the cache and the
\* action request is sent
TokenOk(p) ==
    /\ pc[p] = "token"
    /\ issued < MaxTokens
    /\ \E status \in TokenStatuses, kind \in TokenBodyKinds :
         /\ TokenFetchError(status, kind, issued + 1) = ""
         /\ _SF_ACCESS_TOKEN' = AccessToken(kind, issued + 1)
         /\ headers' = [headers EXCEPT ![p] =
                          AuthHeader(@, _SF_ACCESS_TOKEN')]
         /\ log' = [log EXCEPT ![p] =
                      Append2(@, TokenOkEvent(_SF_ACCESS_TOKEN', status, kind),
                              ActionRequest(headers'[p], payload[p]))]
    /\ issued' = issued + 1
    /\ pc' = [pc EXCEPT ![p] = "action"]
    /\ UNCHANGED <<env, invokes, x_api_key, attempt, payload, resp, outcome,
                   http>>

\* salesforce_client.py 36-44: the POST fails, or the response is rejected;
\* the exception ends update_serial_in_salesforce
\* variant: a failed fetch empties the cache
TokenFail_ClearsCache(p) ==
    /\ pc[p] = "token"
    /\ \/ \E e \in TransportErrors :
            /\ Finish(p, Raised(e))
            /\ log' = [log EXCEPT ![p] = Append(@, TokenFailEvent(0, ""))]
       \/ \E st \in TokenStatuses, k \in TokenBodyKinds :
            /\ TokenFetchError(st, k, issued + 1) # ""
            /\ Finish(p, Raised(TokenFetchError(st, k, issued + 1)))
            /\ log' = [log EXCEPT ![p] = Append(@, TokenFailEvent(st, k))]
    /\ _SF_ACCESS_TOKEN' = JNull
    /\ UNCHANGED <<env, issued, invokes, x_api_key, attempt, payload,
                   headers, resp>>

TokenFail(p) ==
    /\ pc[p] = "token"
    /\ \/ \E e \in TransportErrors :
            /\ Finish(p, Raised(e))
            /\ log' = [log EXCEPT ![p] = Append(@, TokenFailEvent(0, ""))]
       \/ \E st \in TokenStatuses, k \in TokenBodyKinds :
            /\ TokenFetchError(st, k, issued + 1) # ""
            /\ Finish(p, Raised(TokenFetchError(st, k, issued + 1)))
            /\ log' = [log EXCEPT ![p] = Append(@, TokenFailEvent(st, k))]
    /\ UNCHANGED <<_SF_ACCESS_TOKEN, env, issued, invokes, x_api_key, attempt,
                   payload,
                   headers, resp>>

\* ------------------------------------------------------------------------
\* the action response arrives
\* ------------------------------------------------------------------------
\* variant: on 401 the request is resent at once, without a new token
ActionRetry_NoRefetch(p, Bodies) ==
    /\ pc[p] = "action"
    /\ \E status \in ActionStatuses, body \in Bodies :
         /\ ShouldRetry(attempt[p], status)
         /\ resp' = [resp EXCEPT ![p] = [status |-> status, body |-> body]]
         /\ log' = [log EXCEPT ![p] =
                      Append2(@, ActionResponse(status, body),
                              ActionRequest(headers[p], payload[p]))]
    /\ attempt' = [attempt EXCEPT ![p] = @ + 1]
    /\ UNCHANGED <<_SF_ACCESS_TOKEN, env, issued, invokes, x_api_key, payload,
                   headers,
                   pc, outcome, http>>

\* salesforce_client.py 70-71, 26-36: 401 to the first request, a new token
\* is requested
ActionRetry(p, Bodies) ==
    /\ pc[p] = "action"
    /\ \E status \in ActionStatuses, body \in Bodies :
         /\ ShouldRetry(attempt[p], status)
         /\ resp' = [resp EXCEPT ![p] = [status |-> status, body |-> body]]
         /\ IF ConfigMissing
            THEN /\ Finish(p, Raised("RuntimeError"))
                 /\ log' = [log EXCEPT ![p] = Append(@, ActionResponse(status, body))]
                 /\ UNCHANGED attempt
            ELSE /\ pc' = [pc EXCEPT ![p] = "token"]
                 /\ attempt' = [attempt EXCEPT ![p] = @ + 1]
                 /\ log' = [log EXCEPT ![p] =
                              Append2(@, ActionResponse(status, body), TokenRequest)]
                 /\ UNCHANGED <<outcome, http>>
    /\ UNCHANGED <<_SF_ACCESS_TOKEN, env, issued, invokes, x_api_key, payload,
                   headers>>

\* salesforce_client.py 70, 75, 92-118: the response is final and is
\* normalised
ActionFinal(p, Bodies) ==
    /\ pc[p] = "action"
    /\ \E status \in ActionStatuses, body \in Bodies :
         /\ ~ShouldRetry(attempt[p], status)
         /\ resp' = [resp EXCEPT ![p] = [status |-> status, body |-> body]]
         /\ log' = [log EXCEPT ![p] = Append(@, ActionResponse(status, body))]
         /\ Finish(p, Normalize(status, body))
    /\ UNCHANGED <<_SF_ACCESS_TOKEN, env, issued, invokes, x_api_key, attempt,
                   payload,
                   headers>>

\* salesforce_client.py 67, 73: the POST fails (timeout, connection error)
ActionTransportFail(p) ==
    /\ pc[p] = "action"
    /\ \E e \in TransportErrors : Finish(p, Raised(e))
    /\ log' = [log EXCEPT ![p] = Append(@, ActionFailEvent)]
    /\ UNCHANGED <<_SF_ACCESS_TOKEN, env, issued, invokes, x_api_key, attempt,
                   payload,
                   headers, resp>>

\* the handler has answered; the coroutine and its locals are gone
Return(p) ==
    /\ pc[p] = "done"
    /\ pc' = [pc EXCEPT ![p] = "idle"]
    /\ attempt' = [attempt EXCEPT ![p] = 0]
    /\ payload' = [payload EXCEPT ![p] = NoPayload]
    /\ headers' = [headers EXCEPT ![p] = ""]
    /\ resp' = [resp EXCEPT ![p] = NoResponse]
    /\ outcome' = [outcome EXCEPT ![p] = Pending]
    /\ http' = [http EXCEPT ![p] = NoHttp]
    /\ log' = [log EXCEPT ![p] = << >>]
    /\ x_api_key' = [x_api_key EXCEPT ![p] = JAbsent]
    /\ UNCHANGED <<_SF_ACCESS_TOKEN, env, issued, invokes>>

\* ------------------------------------------------------------------------
\* Specifications
\* ------------------------------------------------------------------------
\* no other handler invocation is alive
Alone(p) == \A q \in Procs \ {p} : pc[q] = "idle"

\* handler invocations overlap freely; the action endpoint answers with the
\* bodies of CoreBodies, and with those of SessionExpiredBodies when a 401
\* makes the invoke retry (that body is never read)
Next ==
    \E p \in Procs :
        \/ Rejected(p)
        \/ StartConfigError(p)
        \/ StartFetch(p)
        \/ StartCached(p)
        \/ TokenOk(p)
        \/ TokenFail(p)
        \/ ActionRetry(p, SessionExpiredBodies)
        \/ ActionFinal(p, CoreBodies)
        \/ ActionTransportFail(p)
        \/ Return(p)

Spec == Init /\ [][Next]_vars

\* handler invocations follow one another; the action endpoint answers with
\* every body of ActionBodies
SeqNext ==
    \E p \in Procs :
        \/ Alone(p) /\ Rejected(p)
        \/ Alone(p) /\ StartConfigError(p)
        \/ Alone(p) /\ StartFetch(p)
        \/ Alone(p) /\ StartCached(p)
        \/ TokenOk(p)
        \/ TokenFail(p)
        \/ ActionRetry(p, ActionBodies)
        \/ ActionFinal(p, ActionBodies)
        \/ ActionTransportFail(p)
        \/ Return(p)

SeqSpec == Init /\ [][SeqNext]_vars

\* salesforce_client.py 35, 66: every POST is made with timeout=10, so a
\* coroutine waiting for the network gets a response or a failure
NetworkAnswers(p) ==
    \/ TokenOk(p)
    \/ TokenFail(p)
    \/ ActionRetry(p, SessionExpiredBodies)
    \/ ActionFinal(p, CoreBodies)
    \/ ActionTransportFail(p)

\* overlapping invocations, every network call ends
FairSpec == Spec /\ \A p \in Procs : WF_vars(NetworkAnswers(p))

\* ------------------------------------------------------------------------
\* Reading a coroutine's log
\* ------------------------------------------------------------------------
Events(p, e) == SelectSeq(log[p], LAMBDA x : x.ev = e)

ActionRequests(p) == Events(p, "action_request")
ActionResponses(p) == Events(p, "action_response")
TokenRequests(p) == Events(p, "token_request")
TokenOks(p) == Events(p, "token_ok")

\* statuses of the action responses the invoke has received, in order
Statuses(p) == [i \in 1..Len(ActionResponses(p)) |-> ActionResponses(p)[i].st]

\* update_serial_in_salesforce was entered / has ended
Invoked(p) == log[p] # << >>
Ended(p) == Invoked(p) /\ pc[p] = "done"

\* the cache as the invoke found it
StartCache(p) == log[p][1].tok

\* the first action response was 401 and a token fetch succeeded after it
Reauthenticated(p) ==
    \E i, j \in DOMAIN log[p] :
        /\ i < j
        /\ log[p][i].ev = "action_response"
        /\ log[p][i].st = 401
        /\ log[p][i] = ActionResponses(p)[1]
        /\ log[p][j].ev = "token_ok"

\* a token fetch or an action call of the invoke failed
NetworkFailed(p) ==
    \E i \in DOMAIN log[p] : log[p][i].ev \in {"token_fail", "action_fail"}

\* ------------------------------------------------------------------------
\* C1
\* ------------------------------------------------------------------------
\* C1 as stated: an invoke sends at most two action requests, and it sends
\* the second one if and only if the first response had status 401.
C1_AsStated ==
    \A p \in Procs :
        /\ Len(ActionRequests(p)) <= 2
        /\ Ended(p) =>
             (Len(ActionRequests(p)) = 2
                <=> (Len(Statuses(p)) >= 1 /\ Statuses(p)[1] = 401))

\* C1 amended: an invoke sends at most two action requests; it sends the
\* second one if and only if the first response had status 401 and the token
\* fetch that follows succeeded; the response to the second request ends the
\* invoke whatever its status, and no third request is sent.
C1_AtMostOneRetry ==
    \A p \in Procs :
        /\ Len(ActionRequests(p)) <= 2
        /\ Len(ActionRequests(p)) = 2 <=> Reauthenticated(p)
        /\ Len(Statuses(p)) = 2 =>
             /\ pc[p] = "done"
             /\ resp[p].status = Statuses(p)[2]
             /\ log[p][Len(log[p])].ev = "action_response"

\* the retried request was itself answered 401 and the invoke has ended
C1_Witness ==
    \E p \in Procs :
        /\ Ended(p)
        /\ Len(ActionRequests(p)) = 2
        /\ Statuses(p) = <<401, 401>>

\* ------------------------------------------------------------------------
\* C2
\* ------------------------------------------------------------------------
\* the invoke found a token cached, got 401 and then 200 {"success": true}
C2_Case(p) ==
    /\ Ended(p)
    /\ Truthy(StartCache(p))
    /\ Statuses(p) = <<401, 200>>
    /\ resp[p].body.kind = "object"
    /\ resp[p].body.success = JTrue

\* C2: with a token cached, 401 to the first request and 200 with success
\* true to the retry, the invoke returns success=true after exactly two
\* action requests and one token fetch; the first request carried the cached
\* token, the retry carries the fetched token, a new one, which is the token
\* left in the cache.
C2_RetrySucceeds ==
    \A p \in Procs :
        C2_Case(p) =>
            /\ outcome[p].kind = "returned"
            /\ outcome[p].value.success = TRUE
            /\ Len(ActionRequests(p)) = 2
            /\ Len(TokenRequests(p)) = 1
            /\ Len(TokenOks(p)) = 1
            /\ ActionRequests(p)[1].auth = "Bearer " \o StartCache(p).v
            /\ ActionRequests(p)[2].auth = "Bearer " \o TokenOks(p)[1].tok.v
            /\ TokenOks(p)[1].tok # StartCache(p)
            /\ _SF_ACCESS_TOKEN = TokenOks(p)[1].tok

C2_Witness == \E p \in Procs : C2_Case(p)

\* ------------------------------------------------------------------------
\* C3
\* ------------------------------------------------------------------------
\* the result update_serial_in_salesforce is said to build from a failure
\* response: the body's fields, SF_INVALID_JSON for a body that is not JSON
C3_Expected(r, status, body) ==
    /\ r.success = FALSE
    /\ IF body.kind = "invalid"
       THEN r.error_code = JStr("SF_INVALID_JSON")
       ELSE /\ r.error_code \in {body.error_code, JStr("SF_401")}
            /\ r.salesforce_id \in {body.caseId, JNull}
            /\ r.message.t = "str"

\* C3: when both the first and the retried request are answered 401, the
\* invoke returns a failure result taken from the second response, with the
\* body's error_code or SF_401, and no third request is made.
C3_DoubleUnauthorized ==
    \A p \in Procs :
        (Ended(p) /\ Statuses(p) = <<401, 401>>) =>
            /\ outcome[p].kind = "returned"
            /\ C3_Expected(outcome[p].value, resp[p].status, resp[p].body)
            /\ Len(ActionRequests(p)) = 2

\* ------------------------------------------------------------------------
\* C4
\* ------------------------------------------------------------------------
\* C4: every result update_serial_in_salesforce returns has a non-null
\* error_code if and only if its success flag is false.
C4_ErrorCodeIffFailure ==
    \A p \in Procs :
        outcome[p].kind = "returned" =>
            /\ outcome[p].value.error_code.t \in {"null", "str"}
            /\ outcome[p].value.error_code # JNull
                 <=> outcome[p].value.success = FALSE

\* a failure whose body carried a null or empty error_code
C4_Witness ==
    \E p \in Procs :
        /\ outcome[p].kind = "returned"
        /\ outcome[p].value.success = FALSE
        /\ resp[p].body.kind = "object"
        /\ resp[p].body.error_code \in {JNull, JStr("")}

\* ------------------------------------------------------------------------
\* C5
\* ------------------------------------------------------------------------
\* C5: an invoke in which a token fetch or an action call failed (error
\* answer of the token endpoint, timeout, connection error) does not raise:
\* it returns a result with success=false and an error code.
C5_FailuresAbsorbed ==
    \A p \in Procs :
        (Ended(p) /\ NetworkFailed(p)) =>
            /\ outcome[p].kind = "returned"
            /\ outcome[p].value.success = FALSE
            /\ Truthy(outcome[p].value.error_code)

\* ------------------------------------------------------------------------
\* C6
\* ------------------------------------------------------------------------
\* the invoke ended on an action response (the final response)
FinalResponse(p) ==
    /\ Ended(p)
    /\ log[p][Len(log[p])].ev = "action_response"

\* a field of a JSON object as dict.get(key) gives it: None when absent
FieldOrNone(x) == IF x = JAbsent THEN JNull ELSE x

\* a field of a JSON object, or the given text when the key is absent
FieldOrText(x, text) == IF x = JAbsent THEN JStr(text) ELSE x

\* C6: for a final response whose body is a JSON object the invoke returns
\* success=true if and only if the status is 200 and the success field is
\* the boolean true; a success result has the body's caseId (None when
\* absent), the body's message or the default confirmation, and no
\* error_code.
C6_SuccessIffExact ==
    \A p \in Procs :
        (FinalResponse(p) /\ resp[p].body.kind = "object") =>
            /\ outcome[p].kind = "returned"
            /\ outcome[p].value.success = TRUE
                 <=> (resp[p].status = 200 /\ resp[p].body.success = JTrue)
            /\ outcome[p].value.success = TRUE =>
                 /\ outcome[p].value.salesforce_id
                      = FieldOrNone(resp[p].body.caseId)
                 /\ outcome[p].value.message
                      = FieldOrText(resp[p].body.message,
                                    "Accion realizada correctamente.")
                 /\ outcome[p].value.error_code = JNull

\* 200 {"success": true, "caseId": "X"} was normalised
C6_Witness ==
    \E p \in Procs :
        /\ FinalResponse(p)
        /\ resp[p].status = 200
        /\ resp[p].body.kind = "object"
        /\ resp[p].body.success = JTrue
        /\ resp[p].body.caseId = JStr("X")
        /\ resp[p].body.message = JAbsent
        /\ outcome[p].value.success = TRUE

\* ------------------------------------------------------------------------
\* C7
\* ------------------------------------------------------------------------
\* the final response is a JSON object that is not (200, success true)
C7_Case(p) ==
    /\ FinalResponse(p)
    /\ resp[p].body.kind = "object"
    /\ ~(resp[p].status = 200 /\ resp[p].body.success = JTrue)

\* message and salesforce_id of a failure result
C7_Common(p) ==
    /\ outcome[p].kind = "returned"
    /\ outcome[p].value.success = FALSE
    /\ outcome[p].value.message
         = FieldOrText(resp[p].body.message,
                       "Error en Salesforce (HTTP "
                          \o ToString(resp[p].status) \o ")")
    /\ outcome[p].value.salesforce_id = FieldOrNone(resp[p].body.caseId)

\* C7 as stated: the failure result's error_code is the body's error_code
\* field whenever the body has that field, otherwise SF_<status>.
C7_AsStated ==
    \A p \in Procs :
        C7_Case(p) =>
            /\ C7_Common(p)
            /\ outcome[p].value.error_code
                 = IF resp[p].body.error_code # JAbsent
                   THEN resp[p].body.error_code
                   ELSE JStr("SF_" \o ToString(resp[p].status))

\* C7 amended: the failure result has the body's message or a default text
\* with the status, the body's caseId, and as error_code the body's
\* error_code when that field is present and neither null nor empty,
\* otherwise SF_<status>.
C7_FailureResult ==
    \A p \in Procs :
        C7_Case(p) =>
            /\ C7_Common(p)
            /\ outcome[p].value.error_code
                 = IF resp[p].body.error_code \notin {JAbsent, JNull, JStr("")}
                   THEN resp[p].body.error_code
                   ELSE JStr("SF_" \o ToString(resp[p].status))

\* a 500 whose body has no error_code got SF_500
C7_Witness ==
    \E p \in Procs :
        /\ C7_Case(p)
        /\ resp[p].status = 500
        /\ resp[p].body.error_code = JAbsent
        /\ outcome[p].value.error_code = JStr("SF_500")

\* ------------------------------------------------------------------------
\* C8
\* ------------------------------------------------------------------------
\* a token request was sent after the first action response
RefetchStarted(p) ==
    \E i, j \in DOMAIN log[p] :
        /\ i < j
        /\ log[p][i] = ActionResponses(p)[1]
        /\ log[p][j].ev = "token_request"

\* C8: a final response whose body is not JSON gives success=false with
\* error_code SF_INVALID_JSON and a message with the HTTP status, for every
\* status; a first response with status 401 starts the token re-fetch
\* whatever its body, a body that is not JSON included.
C8_InvalidJson ==
    \A p \in Procs :
        /\ (FinalResponse(p) /\ resp[p].body.kind = "invalid") =>
              /\ outcome[p].kind = "returned"
              /\ outcome[p].value.success = FALSE
              /\ outcome[p].value.error_code = JStr("SF_INVALID_JSON")
              /\ outcome[p].value.message
                   = JStr("Salesforce devolvio una respuesta no valida (HTTP "
                          \o ToString(resp[p].status) \o ")")
        /\ (Len(Statuses(p)) >= 1 /\ Statuses(p)[1] = 401) =>
              RefetchStarted(p)

\* both the first 401 and the retried response had a body that is not JSON
C8_Witness ==
    \E p \in Procs :
        /\ FinalResponse(p)
        /\ Len(ActionResponses(p)) = 2
        /\ ActionResponses(p)[1].st = 401
        /\ ActionResponses(p)[1].kind = "invalid"
        /\ resp[p].body.kind = "invalid"
        /\ resp[p].status \in {200, 401}

\* ------------------------------------------------------------------------
\* C9
\* ------------------------------------------------------------------------
\* number of action responses among the first n events of the log
ResponsesBefore(p, n) ==
    Len(SelectSeq(SubSeq(log[p], 1, n), LAMBDA x : x.ev = "action_response"))

\* the first action response has arrived and is not 401
FirstNot401(p) == Len(Statuses(p)) >= 1 /\ Statuses(p)[1] # 401

\* C9: a token request is sent only as the first step of an invoke that
\* found the cache empty, or right after the 401 answer to its first action
\* request.  An invoke that found a token cached and got a first answer
\* other than 401 sends no token request, sends the cached token as Bearer
\* and leaves the cache as it was; one that found the cache empty sends one
\* token request before its first action request, and the token of a
\* successful fetch is the one left in the cache.
C9_CacheHit ==
    \A p \in Procs :
        /\ \A i \in DOMAIN log[p] :
              log[p][i].ev = "token_request" =>
                  \/ i = 2 /\ ~Truthy(StartCache(p))
                  \/ /\ log[p][i - 1].ev = "action_response"
                     /\ log[p][i - 1].st = 401
                     /\ ResponsesBefore(p, i) = 1
        /\ (Invoked(p) /\ Truthy(StartCache(p)) /\ FirstNot401(p)) =>
              /\ TokenRequests(p) = << >>
              /\ ActionRequests(p)[1].auth = "Bearer " \o StartCache(p).v
              /\ _SF_ACCESS_TOKEN = StartCache(p)
        /\ (Invoked(p) /\ ~Truthy(StartCache(p)) /\ FirstNot401(p)) =>
              /\ Len(TokenRequests(p)) = 1
              /\ log[p][2].ev = "token_request"
              /\ ActionRequests(p)[1].auth = "Bearer " \o TokenOks(p)[1].tok.v
        /\ TokenOks(p) # << >> =>
              _SF_ACCESS_TOKEN = TokenOks(p)[Len(TokenOks(p))].tok

\* an invoke that found a token cached has ended on a first answer 200
C9_Witness ==
    \E p \in Procs :
        /\ Ended(p)
        /\ Truthy(StartCache(p))
        /\ Statuses(p) = <<200>>
        /\ TokenRequests(p) = << >>

\* ------------------------------------------------------------------------
\* C10
\* ------------------------------------------------------------------------
\* index in the log of the n-th event of kind e
NthIndex(p, e, n) ==
    CHOOSE i \in DOMAIN log[p] :
        /\ log[p][i].ev = e
        /\ Len(SelectSeq(SubSeq(log[p], 1, i), LAMBDA x : x.ev = e)) = n

\* C10: the second action request of an invoke comes after the 401 answer
\* to its first request and after a token request sent since that answer
\* has succeeded; it carries the payload of the first request and the token
\* that fetch returned.  Checked with overlapping invokes.
C10_RetryOrder ==
    \A p \in Procs :
        Len(ActionRequests(p)) >= 2 =>
            LET h == NthIndex(p, "action_request", 1)
                m == NthIndex(p, "action_request", 2)
            IN  /\ \E i, j, k \in (h + 1)..(m - 1) :
                      /\ i < j /\ j < k
                      /\ log[p][i].ev = "action_response"
                      /\ log[p][i].st = 401
                      /\ log[p][j].ev = "token_request"
                      /\ log[p][k].ev = "token_ok"
                      /\ log[p][m].auth = "Bearer " \o log[p][k].tok.v
                /\ log[p][m].pl = log[p][h].pl
                /\ log[p][m].pl = payload[p]
                /\ ResponsesBefore(p, m) = 1

\* an invoke has sent its retry while another invoke is waiting for the
\* network, and the cache no longer holds the token the retry carries
C10_Witness ==
    \E p, q \in Procs :
        /\ p # q
        /\ Len(ActionRequests(p)) = 2
        /\ pc[q] \in {"token", "action"}
        /\ ActionRequests(p)[2].auth # "Bearer " \o _SF_ACCESS_TOKEN.v

\* ------------------------------------------------------------------------
\* C11
\* ------------------------------------------------------------------------
\* the tokens that successfully completed fetches have returned so far
IssuedTokens == {Token(n) : n \in 1..issued}

\* the last event of the log of an invoke
LastEvent(p) == log[p][Len(log[p])]

\* C11: with invokes overlapping at the network awaits, the cache holds
\* nothing or a token returned by a completed successful fetch, every action
\* request carries such a token, an invoke sends at most two action requests
\* (and at most two token requests: the race only adds fetches), and an
\* invoke that ended on a response ends with what normalising that very
\* response gives, whatever the other invoke received.
C11_BenignRace ==
    /\ _SF_ACCESS_TOKEN \in {JNull} \cup IssuedTokens
    /\ \A p \in Procs :
          /\ \A i \in 1..Len(ActionRequests(p)) :
                \E tok \in IssuedTokens :
                    ActionRequests(p)[i].auth = "Bearer " \o tok.v
          /\ Len(ActionRequests(p)) <= 2
          /\ Len(TokenRequests(p)) <= 2
          /\ FinalResponse(p) =>
                /\ LastEvent(p).st = resp[p].status
                /\ LastEvent(p).kind = resp[p].body.kind
                /\ outcome[p] = Normalize(resp[p].status, resp[p].body)

\* two overlapping invokes both found the cache empty and both fetched a
\* token (one fetch was redundant); they ended on different responses and
\* returned different results
C11_Witness ==
    \E p, q \in Procs :
        /\ p # q
        /\ FinalResponse(p) /\ FinalResponse(q)
        /\ StartCache(p) = JNull /\ StartCache(q) = JNull
        /\ Len(TokenOks(p)) = 1 /\ Len(TokenOks(q)) = 1
        /\ ActionRequests(p)[1].auth # ActionRequests(q)[1].auth
        /\ outcome[p].kind = "returned" /\ outcome[q].kind = "returned"
        /\ outcome[p].value.success /\ ~outcome[q].value.success

\* ------------------------------------------------------------------------
\* C12
\* ------------------------------------------------------------------------
\* C12: when the client id or the client secret is not configured (unset,
\* or set to the empty string), every invoke ends with the configuration
\* error (RuntimeError) with no token request and no action request sent,
\* nothing is retried, and the cache stays empty.
C12_ConfigError ==
    (CLIENT_ID \in {JNull, JStr("")} \/ CLIENT_SECRET \in {JNull, JStr("")}) =>
        /\ _SF_ACCESS_TOKEN = JNull
        /\ issued = 0
        /\ \A p \in Procs :
              Invoked(p) =>
                  /\ Len(log[p]) = 1
                  /\ log[p][1].ev = "invoke"
                  /\ pc[p] = "done"
                  /\ outcome[p] = Raised("RuntimeError")

\* the client id is configured and the secret is not: two overlapping
\* calls have both ended with the configuration error
C12_Witness ==
    /\ CLIENT_ID = JStr("configured")
    /\ CLIENT_SECRET = JNull
    /\ \A p \in Procs : Ended(p) /\ outcome[p] = Raised("RuntimeError")

\* ------------------------------------------------------------------------
\* C13
\* ------------------------------------------------------------------------
\* the re-authentication fetch of the invoke is in flight
RefetchInFlight(p) ==
    Len(ActionResponses(p)) >= 1 /\ RefetchStarted(p) /\ pc[p] = "token"

\* the re-authentication fetch of the invoke has failed
RefetchFailed(p) ==
    /\ Len(ActionResponses(p)) >= 1 /\ RefetchStarted(p)
    /\ Ended(p) /\ LastEvent(p).ev = "token_fail"

\* C13: with invokes running one after another, the cache holds no token
\* while the fetch that follows a first 401 is in flight, and none after
\* that fetch has failed (the rejected token is not kept).
C13_Invalidated ==
    \A p \in Procs :
        (RefetchInFlight(p) \/ RefetchFailed(p)) => _SF_ACCESS_TOKEN = JNull

\* ------------------------------------------------------------------------
\* C14
\* ------------------------------------------------------------------------
\* the token responses the invoke has received: the events that ended a
\* fetch whose POST was answered
TokenResponses(p) ==
    SelectSeq(log[p],
              LAMBDA x : x.ev \in {"token_ok", "token_fail"} /\ x.st # 0)

FetchSucceeds(p) ==
    /\ pc[p] = "token"
    /\ pc'[p] = "action"
    /\ Len(log'[p]) = Len(log[p]) + 2
    /\ log'[p][Len(log[p]) + 1].ev = "token_ok"

\* C15: a step changes the cached token only if it is the successful end
\* of a token fetch, and such a step leaves in the cache exactly the token
\* that fetch returned; every other step (a failed fetch of any kind, an
\* action call, normalisation, a rejected call) leaves the cache as it was.
C15_CacheFrame ==
    [][ /\ _SF_ACCESS_TOKEN' # _SF_ACCESS_TOKEN =>
              \E p \in Procs : FetchSucceeds(p)
        /\ \A p \in Procs :
              FetchSucceeds(p) =>
                  /\ _SF_ACCESS_TOKEN' = log'[p][Len(log[p]) + 1].tok
                  /\ _SF_ACCESS_TOKEN' = Token(issued')
                  /\ issued' = issued + 1 ]_vars

\* a token was cached, an invoke saw its re-fetch fail, and the cache still
\* holds a token while another invoke is using the action endpoint
C15_Witness ==
    \E p, q \in Procs :
        /\ p # q
        /\ Ended(p)
        /\ LastEvent(p).ev = "token_fail"
        /\ Len(ActionResponses(p)) = 1
        /\ pc[q] = "action"
        /\ _SF_ACCESS_TOKEN \in IssuedTokens

\* ------------------------------------------------------------------------
\* C16
\* ------------------------------------------------------------------------
\* C16: an invoke that ended on an action response returned a result,
\* whatever the body of that response (not JSON, a JSON object, or JSON
\* that is not an object); it did not raise.
C16_AlwaysReturns ==
    \A p \in Procs : FinalResponse(p) => outcome[p].kind = "returned"

\* ------------------------------------------------------------------------
\* C17
\* ------------------------------------------------------------------------
\* C17: with invokes overlapping and every network call ending, no invoke
\* waits for the token endpoint or the action endpoint forever, and it
\* stops waiting only by ending (returning or raising); at no time has an
\* invoke sent more than two token requests or more than two action
\* requests.
C17_Terminates ==
    /\ [](\A p \in Procs :
            Len(TokenRequests(p)) <= 2 /\ Len(ActionRequests(p)) <= 2)
    /\ [][\A p \in Procs :
            (pc[p] \in {"token", "action"} /\ pc'[p] \notin {"token", "action"})
                => pc'[p] = "done"]_vars
    /\ \A p \in Procs : []<>(pc[p] \notin {"token", "action"})

\* two overlapping invokes have both ended after two token requests and two
\* action requests each
C17_Witness ==
    \A p \in Procs :
        /\ Ended(p)
        /\ Len(TokenRequests(p)) = 2
        /\ Len(ActionRequests(p)) = 2

\* ------------------------------------------------------------------------
\* C18
\* ------------------------------------------------------------------------
\* C18: a call that passed the API key gate and has ended was answered
\* with a ProcessSerialResponse (HTTP 200): ok=false and error_code
\* SF_INTERNAL_ERROR when update_serial_in_salesforce raised, ok equal to
\* the success flag of its result otherwise, and error_code non-null
\* exactly when ok is false.
C18_HandlerAbsorbs ==
    \A p \in Procs :
        Ended(p) =>
            /\ http[p].status = 200
            /\ outcome[p].kind = "raised" =>
                  /\ ~http[p].ok
                  /\ http[p].error_code = JStr("SF_INTERNAL_ERROR")
            /\ outcome[p].kind = "returned" =>
                  (http[p].ok <=> outcome[p].value.success)
            /\ http[p].error_code # JNull <=> ~http[p].ok

\* ------------------------------------------------------------------------
\* C19
\* ------------------------------------------------------------------------
\* k is the header of a call that came without x-api-key (null) or with
\* another key than the configured one
BadKey(k) == k # JAbsent /\ k # JStr(API_KEY)

\* C19: a call whose x-api-key header is missing or is not the configured
\* key is answered with HTTP 401 and never reaches
\* update_serial_in_salesforce: it sends no token request and no action
\* request, and the step that rejects it leaves the cached token as it was.
C19_Rejected ==
    /\ [](\A p \in Procs :
            BadKey(x_api_key[p]) =>
                /\ http[p].status = 401
                /\ log[p] = << >>
                /\ outcome[p] = Pending
                /\ pc[p] = "done")
    /\ [][\A p \in Procs :
            (BadKey(x_api_key'[p]) /\ x_api_key[p] = JAbsent) =>
                /\ _SF_ACCESS_TOKEN' = _SF_ACCESS_TOKEN
                /\ issued' = issued]_vars

\* a call without the header has been rejected while a token is cached and
\* another call is waiting for the action endpoint
C19_Witness ==
    \E p, q \in Procs :
        /\ x_api_key[p] = JNull
        /\ http[p].status = 401
        /\ pc[q] = "action"
        /\ _SF_ACCESS_TOKEN = Token(1)

====
